---- MODULE Spec2Model ----
(***************************************************************************)
(* Fixed-step integrators of src/MultiStep.py (CustomNumericalMethods):    *)
(* adams_bashforth_2, adams_moulton_2, adams_bashforth_4 and               *)
(* custom_dirk_method, one call per behaviour.                             *)
(*                                                                         *)
(* Numbers are exact elements of Q(sqrt 3), written <<a, b, d>> for        *)
(* (a + b*sqrt(3)) / d with d > 0 and gcd(a, b, d) = 1: the DIRK           *)
(* coefficient gamma = (3 - sqrt(3))/6 is irrational.  Floating-point      *)
(* rounding is not modelled.  State vectors are sequences of numbers.      *)
(* Row and grid indices are the 0-based indices of the source; the         *)
(* sequences holding them are 1-based, so row k is solution[k + 1].        *)
(***************************************************************************)
EXTENDS Integers, Sequences, FiniteSets

VARIABLES
    method,       \* which entry point is called
    f,            \* derivative function f(x, t) = f.a*x + f.b*t + f.c
    x0, t0, tf, h,\* arguments of the call
    pc,           \* position in the called function
    num_steps,    \* local num_steps
    time_points,  \* local time_points
    solution,     \* local solution
    i,            \* loop variable
    f_evals,      \* number of evaluations of f so far, counted up to
                  \* EvalCap
    solver_calls, \* number of calls of optimize.fsolve so far, nested
                  \* ones included, counted up to EvalCap
    solves,       \* the fsolve calls made directly by a time step
    writes,       \* rows assigned so far, in order, with the statement
                  \* assigning each
    reads,        \* rows of solution read so far, with the step reading
    result,       \* the returned tuple, <<>> before the return
    error         \* name of the exception raised, "" if none

vars == <<method, f, x0, t0, tf, h, pc, num_steps, time_points, solution, i,
          f_evals, solver_calls, solves, writes, reads, result, error>>

inputs == <<method, f, x0, t0, tf, h>>

(***************************************************************************)
(* Bounds of the model.                                                    *)
(***************************************************************************)
MaxT == 4
MaxDim == 2
EvalCap == 16

Methods == {"ab2", "am2", "ab4", "dirk"}
Derivatives == [a : {-1, 0, 1}, b : {0, 1}, c : {0, 1}]
InitialStates == UNION {[1..d -> {0, 1}] : d \in 0..MaxDim}
StartTimes == {0, 1}
EndTimes == 0..MaxT
StepSizes == {-1, 0, 1, 2}

(***************************************************************************)
(* Exact arithmetic.                                                       *)
(***************************************************************************)
Abs(n) == IF n < 0 THEN -n ELSE n

Min(m, n) == IF m < n THEN m ELSE n

RECURSIVE GCD(_, _)
GCD(m, n) == IF n = 0 THEN m ELSE GCD(n, m % n)

GCD3(a, b, d) == GCD(GCD(Abs(a), Abs(b)), Abs(d))

QNorm(a, b, d) ==
    LET s == IF d < 0 THEN -1 ELSE 1
        g == GCD3(a, b, d)
    IN  <<(s * a) \div g, (s * b) \div g, (s * d) \div g>>

Num(n) == <<n, 0, 1>>

Rat(p, q) == QNorm(p, 0, q)

QAdd(x, y) ==
    LET g == GCD(x[3], y[3])
        m1 == y[3] \div g
        m2 == x[3] \div g
    IN  QNorm(x[1] * m1 + y[1] * m2, x[2] * m1 + y[2] * m2, x[3] * m1)

QNeg(x) == <<-x[1], -x[2], x[3]>>

QSub(x, y) == QAdd(x, QNeg(y))

QMul(x, y) ==
    LET g1 == GCD3(x[1], x[2], y[3])
        g2 == GCD3(y[1], y[2], x[3])
        a1 == x[1] \div g1
        b1 == x[2] \div g1
        d1 == x[3] \div g2
        a2 == y[1] \div g2
        b2 == y[2] \div g2
        d2 == y[3] \div g1
    IN  QNorm(a1 * a2 + 3 * b1 * b2, a1 * b2 + b1 * a2, d1 * d2)

\* 1/x for x # 0: d*(a - b*sqrt 3) / (a^2 - 3*b^2)
QInv(x) ==
    LET g == GCD(Abs(x[1]), Abs(x[2]))
        a == x[1] \div g
        b == x[2] \div g
    IN  QNorm(x[3] * a, -(x[3] * b), g * (a * a - 3 * b * b))

QDiv(x, y) == QMul(x, QInv(y))

Zero == Num(0)

\* int(p/q) for integers p and q # 0: Python's int() truncates toward zero
Trunc(p, q) ==
    LET n == IF q < 0 THEN -p ELSE p
        m == Abs(q)
    IN  IF n >= 0 THEN n \div m ELSE -((-n) \div m)

\* Vectors are built element by element, so that every value is a tuple.
RECURSIVE VAdd(_, _)
VAdd(u, v) ==
    IF Len(u) = 0 THEN <<>>
    ELSE <<QAdd(Head(u), Head(v))>> \o VAdd(Tail(u), Tail(v))

RECURSIVE VSub(_, _)
VSub(u, v) ==
    IF Len(u) = 0 THEN <<>>
    ELSE <<QSub(Head(u), Head(v))>> \o VSub(Tail(u), Tail(v))

RECURSIVE VScale(_, _)
VScale(q, v) ==
    IF Len(v) = 0 THEN <<>>
    ELSE <<QMul(q, Head(v))>> \o VScale(q, Tail(v))

RECURSIVE VShift(_, _)
VShift(v, q) ==
    IF Len(v) = 0 THEN <<>>
    ELSE <<QAdd(Head(v), q)>> \o VShift(Tail(v), q)

RECURSIVE Vec(_)
Vec(x) == IF Len(x) = 0 THEN <<>> ELSE <<Num(Head(x))>> \o Vec(Tail(x))

Range(s) == {s[j] : j \in DOMAIN s}

(***************************************************************************)
(* The derivative function supplied by the caller, an affine system        *)
(* applied componentwise: f(x, t) = a*x + b*t + c.                         *)
(***************************************************************************)
RECURSIVE F(_, _)
F(x, t) ==
    IF Len(x) = 0 THEN <<>>
    ELSE <<QAdd(QAdd(QMul(Num(f.a), Head(x)), QMul(Num(f.b), t)), Num(f.c))>>
         \o F(Tail(x), t)

(***************************************************************************)
(* numpy and scipy operations used by the integrators.                     *)
(***************************************************************************)
\* numpy index of the first axis: a negative index counts from the end
Index(k) == IF k < 0 THEN k + num_steps ELSE k

Row(k) == solution[Index(k) + 1]

Time(k) == time_points[Index(k) + 1]

\* np.linspace(start, stop, num), num >= 0, endpoint included
Linspace(start, stop, num) ==
    IF num = 1
    THEN <<Num(start)>>
    ELSE [k \in 1..num |->
             QAdd(Num(start), QMul(Num(k - 1), Rat(stop - start, num - 1)))]

\* np.zeros((n, d))
Zeros(n, d) == [k \in 1..n |-> [j \in 1..d |-> Zero]]

\* the reads of solution[k], k \in ks, made while computing row `step`
Written == {w.row : w \in Range(writes)}

ReadLog(step, ks) == {<<step, Index(k), Index(k) \in Written>> : k \in ks}

(***************************************************************************)
(* optimize.fsolve(func, guess) on a residual that is affine and           *)
(* componentwise, as every residual built from F is.  g0 and g1 are the    *)
(* residuals at guess and at guess + 1 (the forward difference MINPACK     *)
(* takes for the Jacobian): the Newton step from guess lands on the exact  *)
(* root.  With a zero slope and a nonzero residual there is no root: the   *)
(* iteration makes no progress and the iterate stays at the guess, which   *)
(* fsolve returns after a RuntimeWarning.  MINPACK rejects an empty        *)
(* unknown as improper input, which fsolve raises as TypeError.            *)
(*                                                                         *)
(* How often fsolve evaluates func is decided inside scipy and MINPACK,    *)
(* not in src/MultiStep.py.  On an unknown of length n > 0 it is at least  *)
(* n + 3 times: once to check the shape of the result, once at the guess,  *)
(* once per component for the forward differences and once per trial       *)
(* point, of which there is at least one.  The number of trial points      *)
(* depends on the iteration, so the number of evaluations is any number    *)
(* from n + 3 on.  On an empty unknown func is evaluated once or twice     *)
(* before the TypeError.                                                   *)
(***************************************************************************)
\* a counter c after k more events; EvalCap stands for EvalCap or more
Count(c, k) == Min(c + k, EvalCap)

\* the numbers of evaluations of func one fsolve call can make on an
\* unknown of length n
SolverEvals(n) ==
    IF n = 0 THEN {1, 2}
    ELSE (n + 3)..(IF n + 3 < EvalCap THEN EvalCap ELSE n + 3)

\* the numbers of evaluations of func that m fsolve calls can make together
\* on unknowns of length n > 0; totals above EvalCap count as EvalCap
NestedEvals(m, n) ==
    LET least == m * (n + 3)
    IN  least..(IF least < EvalCap THEN EvalCap ELSE least)
Singular(g0, g1) == \E j \in DOMAIN g0 : g0[j] # Zero /\ g1[j] = g0[j]

FSolveStatus(guess, g0, g1) ==
    IF Len(guess) = 0 THEN "improper_input"
    ELSE IF Singular(g0, g1) THEN "no_progress"
    ELSE "converged"

\* the Newton step from guess, component by component
RECURSIVE NewtonStep(_, _, _)
NewtonStep(guess, g0, g1) ==
    IF Len(guess) = 0 THEN <<>>
    ELSE <<IF Head(g1) = Head(g0)
           THEN Head(guess)
           ELSE QSub(Head(guess),
                     QDiv(Head(g0), QSub(Head(g1), Head(g0))))>>
         \o NewtonStep(Tail(guess), Tail(g0), Tail(g1))

FSolveX(guess, g0, g1) ==
    IF Singular(g0, g1) THEN guess ELSE NewtonStep(guess, g0, g1)

(***************************************************************************)
(* Statements shared by the four functions.                                *)
(***************************************************************************)
\* NumSteps without the starting point
NumStepsNoStart == Trunc(tf - t0, h)

\* num_steps = int((tf - t0) / h) + 1, for h # 0
NumSteps == Trunc(tf - t0, h) + 1

\* solution = np.zeros((num_steps, len(x0))); solution[0] = x0
InitSolution(n) == [Zeros(n, Len(x0)) EXCEPT ![1] = Vec(x0)]

\* HasSteps taking the bootstrap step on a single-point grid
HasStepsFromOne == num_steps >= 1

\* if num_steps > 1
HasSteps == num_steps > 1

\* The first four statements of each function.  h = 0 raises
\* ZeroDivisionError, a negative num_steps makes np.linspace raise
\* ValueError, and num_steps = 0 makes solution[0] = x0 raise IndexError.
Setup(nextpc, nexti) ==
    /\ pc = "call"
    /\ IF h = 0
       THEN /\ pc' = "error"
            /\ error' = "ZeroDivisionError"
            /\ UNCHANGED <<num_steps, time_points, solution, writes, i>>
       ELSE /\ num_steps' = NumSteps
            /\ IF NumSteps < 0
               THEN /\ pc' = "error"
                    /\ error' = "ValueError"
                    /\ UNCHANGED <<time_points, solution, writes, i>>
               ELSE /\ time_points' = Linspace(t0, tf, NumSteps)
                    /\ IF NumSteps = 0
                       THEN /\ solution' = Zeros(0, Len(x0))
                            /\ pc' = "error"
                            /\ error' = "IndexError"
                            /\ UNCHANGED <<writes, i>>
                       ELSE /\ solution' = InitSolution(NumSteps)
                            /\ writes' = <<[row |-> 0, by |-> "x0"]>>
                            /\ pc' = nextpc
                            /\ i' = nexti
                            /\ error' = error
    /\ UNCHANGED <<inputs, f_evals, solver_calls, solves, reads, result>>

\* Store assigning the row before the one meant
StoreRowBefore(k, v, by, nextpc) ==
    IF Index(k - 1) \in 0..(num_steps - 1)
    THEN /\ solution' = [solution EXCEPT ![Index(k - 1) + 1] = v]
         /\ writes' = Append(writes, [row |-> Index(k - 1), by |-> by])
         /\ pc' = nextpc
         /\ error' = error
    ELSE /\ pc' = "error"
         /\ error' = "IndexError"
         /\ UNCHANGED <<solution, writes>>

\* solution[k] = v, the assignment of statement `by`, then continue at
\* nextpc; IndexError if k is out of bounds
Store(k, v, by, nextpc) ==
    IF Index(k) \in 0..(num_steps - 1)
    THEN /\ solution' = [solution EXCEPT ![Index(k) + 1] = v]
         /\ writes' = Append(writes, [row |-> Index(k), by |-> by])
         /\ pc' = nextpc
         /\ error' = error
    ELSE /\ pc' = "error"
         /\ error' = "IndexError"
         /\ UNCHANGED <<solution, writes>>

\* return time_points, solution
Return ==
    /\ result' = <<time_points, solution>>
    /\ pc' = "done"
    /\ UNCHANGED <<inputs, num_steps, time_points, solution, i, f_evals,
                   solver_calls, solves, writes, reads, error>>

\* x1 = x0 + h * f(x0, t0)
EulerStep == VAdd(Vec(x0), VScale(Num(h), F(Vec(x0), Num(t0))))

\* solution[k-1] + h * (1.5 * f(row k-1) - 0.5 * f(row k-2))
AB2Formula(k) ==
    VAdd(Row(k - 1),
         VScale(Num(h),
                VSub(VScale(Rat(3, 2), F(Row(k - 1), Time(k - 1))),
                     VScale(Rat(1, 2), F(Row(k - 2), Time(k - 2))))))

(***************************************************************************)
(* adams_bashforth_2                                                       *)
(***************************************************************************)
AB2Setup == method = "ab2" /\ Setup("if", 0)

AB2Euler ==
    /\ method = "ab2" /\ pc = "if" /\ HasSteps
    /\ Store(1, EulerStep, "euler", "loop")
    /\ i' = 2
    /\ f_evals' = Count(f_evals, 1)
    /\ UNCHANGED <<inputs, num_steps, time_points, solver_calls, solves,
                   reads, result>>

AB2Step ==
    /\ method = "ab2" /\ pc = "loop" /\ i < num_steps
    /\ Store(i, AB2Formula(i), "ab2", "loop")
    /\ reads' = reads \cup ReadLog(i, {i - 1, i - 2})
    /\ i' = i + 1
    /\ f_evals' = Count(f_evals, 2)
    /\ UNCHANGED <<inputs, num_steps, time_points, solver_calls, solves,
                   result>>

AB2Return ==
    /\ method = "ab2"
    /\ \/ pc = "if" /\ ~HasSteps
       \/ pc = "loop" /\ i >= num_steps
    /\ Return

(***************************************************************************)
(* adams_moulton_2                                                         *)
(***************************************************************************)
\* x_pred of implicit_equation: computed on every evaluation, never used
XPred(k) == AB2Formula(k)

\* implicit_equation(x_next) of step k, with t = time_points[k]
ImplicitEquationAM2(x_next, k) ==
    LET k_next == F(x_next, Time(k))
        k1 == F(Row(k - 1), Time(k - 1))
    IN  VSub(x_next,
             VAdd(Row(k - 1),
                  VScale(Num(h),
                         VAdd(VScale(Rat(1, 2), k_next),
                              VScale(Rat(1, 2), k1)))))

\* the second argument of optimize.fsolve in step k
AM2Guess(k) == Row(k - 1)

AM2Setup == method = "am2" /\ Setup("if", 0)

AM2Euler ==
    /\ method = "am2" /\ pc = "if" /\ HasSteps
    /\ Store(1, EulerStep, "euler", "loop")
    /\ i' = 2
    /\ f_evals' = Count(f_evals, 1)
    /\ UNCHANGED <<inputs, num_steps, time_points, solver_calls, solves,
                   reads, result>>

\* One pass of the loop: one fsolve call, and four evaluations of f for
\* each evaluation of implicit_equation that the call makes.
AM2Step ==
    /\ method = "am2" /\ pc = "loop" /\ i < num_steps
    /\ LET guess == AM2Guess(i)
           g0 == ImplicitEquationAM2(guess, i)
           g1 == ImplicitEquationAM2(VShift(guess, Num(1)), i)
           status == FSolveStatus(guess, g0, g1)
       IN  /\ solves' = solves \cup
                  {[step |-> i, guess |-> guess, residual |-> g0,
                    status |-> status]}
           /\ IF status = "improper_input"
              THEN /\ pc' = "error"
                   /\ error' = "TypeError"
                   /\ UNCHANGED <<solution, writes, i>>
              ELSE /\ Store(i, FSolveX(guess, g0, g1), "fsolve", "loop")
                   /\ i' = i + 1
    /\ f_evals' \in {Count(f_evals, 4 * m) : m \in SolverEvals(Len(x0))}
    /\ solver_calls' = Count(solver_calls, 1)
    /\ reads' = reads \cup ReadLog(i, {i - 1, i - 2})
    /\ UNCHANGED <<inputs, num_steps, time_points, result>>

AM2Return ==
    /\ method = "am2"
    /\ \/ pc = "if" /\ ~HasSteps
       \/ pc = "loop" /\ i >= num_steps
    /\ Return

(***************************************************************************)
(* adams_bashforth_4                                                       *)
(***************************************************************************)
\* RK4Stop ending the bootstrap one point early
RK4StopEarly == Min(3, num_steps)

\* AB4Start entering the recurrence one point early
AB4StartEarly == 4 - 1

\* range(1, min(4, num_steps)) stops before this index
RK4Stop == Min(4, num_steps)

\* range(4, num_steps) starts at this index
AB4Start == 4

\* one classical Runge-Kutta step from row k-1, with t = time_points[k-1]
RK4Step(k) ==
    LET t == Time(k - 1)
        x == Row(k - 1)
        hh == Num(h)
        half == QMul(Rat(1, 2), hh)
        k1 == F(x, t)
        k2 == F(VAdd(x, VScale(half, k1)), QAdd(t, half))
        k3 == F(VAdd(x, VScale(half, k2)), QAdd(t, half))
        k4 == F(VAdd(x, VScale(hh, k3)), QAdd(t, hh))
        sum == VAdd(VAdd(k1, VScale(Num(2), k2)),
                    VAdd(VScale(Num(2), k3), k4))
    IN  VAdd(x, VScale(Rat(1, 6), VScale(hh, sum)))

\* 55/24, 59/24, 37/24, 9/24: the weights of k[0..3], signs in AB4Formula
AB4Weights == <<Rat(55, 24), Rat(59, 24), Rat(37, 24), Rat(9, 24)>>

\* k[j-1] = f(solution[k-j], time_points[k-j]), j = 1..4, and the update
AB4Formula(k) ==
    LET kk == [j \in 1..4 |-> F(Row(k - j), Time(k - j))]
        w == AB4Weights
    IN  VAdd(Row(k - 1),
             VScale(Num(h),
                    VSub(VAdd(VSub(VScale(w[1], kk[1]), VScale(w[2], kk[2])),
                              VScale(w[3], kk[3])),
                         VScale(w[4], kk[4]))))

AB4Setup == method = "ab4" /\ Setup("if", 0)

AB4RK4Step ==
    /\ method = "ab4"
    /\ \/ pc = "if" /\ HasSteps
       \/ pc = "rk4" /\ i < RK4Stop
    /\ LET k == IF pc = "if" THEN 1 ELSE i
       IN  /\ k < RK4Stop
           /\ Store(k, RK4Step(k), "rk4", "rk4")
           /\ reads' = reads \cup ReadLog(k, {k - 1})
           /\ i' = k + 1
    /\ f_evals' = Count(f_evals, 4)
    /\ UNCHANGED <<inputs, num_steps, time_points, solver_calls, solves,
                   result>>

AB4Step ==
    /\ method = "ab4"
    /\ \/ pc = "rk4" /\ i >= RK4Stop
       \/ pc = "main"
    /\ LET k == IF pc = "rk4" THEN AB4Start ELSE i
       IN  /\ k < num_steps
           /\ Store(k, AB4Formula(k), "ab4", "main")
           /\ reads' = reads \cup ReadLog(k, {k - j : j \in 1..4})
           /\ i' = k + 1
    /\ f_evals' = Count(f_evals, 4)
    /\ UNCHANGED <<inputs, num_steps, time_points, solver_calls, solves,
                   result>>

AB4Return ==
    /\ method = "ab4"
    /\ \/ pc = "if" /\ ~HasSteps
       \/ pc = "rk4" /\ i >= RK4Stop /\ AB4Start >= num_steps
       \/ pc = "main" /\ i >= num_steps
    /\ Return

(***************************************************************************)
(* custom_dirk_method                                                      *)
(***************************************************************************)
\* gamma = (3 - np.sqrt(3)) / 6
Gamma == QNorm(3, -1, 6)

\* the initial guess of the stage solve of step k
StageGuess(k) == F(Row(k - 1), Time(k - 1))

\* stage_equation(k1) of step k, with t_prev = time_points[k-1]
StageEquation(k1, k) ==
    LET hg == QMul(Num(h), Gamma)
        stage_arg == VAdd(Row(k - 1), VScale(hg, k1))
    IN  VSub(F(stage_arg, QAdd(Time(k - 1), hg)), k1)

StageStatus(k) ==
    FSolveStatus(StageGuess(k), StageEquation(StageGuess(k), k),
                 StageEquation(VShift(StageGuess(k), Num(1)), k))

\* k1 = optimize.fsolve(stage_equation, f(solution[k-1], t_prev))
StageRoot(k) ==
    FSolveX(StageGuess(k), StageEquation(StageGuess(k), k),
            StageEquation(VShift(StageGuess(k), Num(1)), k))

\* implicit_equation(x_next) of step k
ImplicitEquationDIRK(x_next, k) ==
    VSub(VAdd(Row(k - 1), VScale(Num(h), StageRoot(k))), x_next)

\* the second argument of the outer optimize.fsolve in step k
DIRKGuess(k) == Row(k - 1)

\* what one pass on an unknown of length n > 0 can make of solver_calls
\* and f_evals: the outer fsolve call evaluates implicit_equation m times,
\* each evaluation with one evaluation of f for the stage guess and one
\* stage solve, and the m stage solves evaluate stage_equation, and so f,
\* k times together
DIRKCounts(n) ==
    UNION {{<<Count(solver_calls, 1 + m), Count(f_evals, m + k)>> :
               k \in NestedEvals(m, n)} : m \in SolverEvals(n)}

DIRKSetup == method = "dirk" /\ Setup("loop", 1)

\* One pass of the loop: the outer fsolve call evaluates implicit_equation
\* m times, and each of these evaluates f for the stage guess and runs one
\* stage solve, which evaluates f once for each evaluation of
\* stage_equation it makes.  On an empty unknown the first stage solve
\* raises the TypeError.
DIRKStep ==
    /\ method = "dirk" /\ pc = "loop" /\ i < num_steps
    /\ LET guess == DIRKGuess(i)
           g0 == ImplicitEquationDIRK(guess, i)
           g1 == ImplicitEquationDIRK(VShift(guess, Num(1)), i)
           status == FSolveStatus(guess, g0, g1)
       IN  /\ solves' = solves \cup
                  {[step |-> i, guess |-> guess, residual |-> g0,
                    status |-> IF StageStatus(i) = "converged"
                               THEN status ELSE StageStatus(i)]}
           /\ IF status = "improper_input"
              THEN /\ pc' = "error"
                   /\ error' = "TypeError"
                   /\ UNCHANGED <<solution, writes, i>>
                   /\ solver_calls' = Count(solver_calls, 2)
                   /\ f_evals' \in {Count(f_evals, 1 + k) :
                                        k \in SolverEvals(Len(x0))}
              ELSE /\ Store(i, FSolveX(guess, g0, g1), "fsolve", "loop")
                   /\ i' = i + 1
                   /\ \E counts \in DIRKCounts(Len(x0)) :
                          /\ solver_calls' = counts[1]
                          /\ f_evals' = counts[2]
    /\ reads' = reads \cup ReadLog(i, {i - 1})
    /\ UNCHANGED <<inputs, num_steps, time_points, result>>

DIRKReturn ==
    /\ method = "dirk" /\ pc = "loop" /\ i >= num_steps
    /\ Return

Init ==
    /\ method \in Methods
    /\ f \in Derivatives
    /\ x0 \in InitialStates
    /\ t0 \in StartTimes
    /\ tf \in EndTimes
    /\ h \in StepSizes
    /\ pc = "call"
    /\ num_steps = 0
    /\ time_points = <<>>
    /\ solution = <<>>
    /\ i = 0
    /\ f_evals = 0
    /\ solver_calls = 0
    /\ solves = {}
    /\ writes = <<>>
    /\ reads = {}
    /\ result = <<>>
    /\ error = ""

Next ==
    \/ AB2Setup \/ AB2Euler \/ AB2Step \/ AB2Return
    \/ AM2Setup \/ AM2Euler \/ AM2Step \/ AM2Return
    \/ AB4Setup \/ AB4RK4Step \/ AB4Step \/ AB4Return
    \/ DIRKSetup \/ DIRKStep \/ DIRKReturn

Spec == Init /\ [][Next]_vars

(***************************************************************************)
(* Properties.                                                             *)
(***************************************************************************)
Returned == pc = "done"

ValidSpan == tf >= t0 /\ h > 0

\* floor((tf - t0)/h) for tf >= t0 and h > 0, by its defining inequality
FloorQuotient ==
    CHOOSE k \in 0..(MaxT + 1) : k * h <= tf - t0 /\ tf - t0 < (k + 1) * h

\* C1: for tf >= t0 and h > 0 the time grid has floor((tf - t0)/h) + 1
\* points, the trajectory has one row per grid point, and a returned
\* trajectory has as many rows as the returned grid.
C1_GridLength ==
    ValidSpan =>
        /\ pc \in {"if", "loop", "rk4", "main", "done"} =>
               /\ Len(time_points) = FloorQuotient + 1
               /\ Len(solution) = Len(time_points)
        /\ Returned =>
               /\ Len(result[1]) = FloorQuotient + 1
               /\ Len(result[2]) = Len(result[1])

C1_Witness ==
    /\ Returned /\ ValidSpan
    /\ tf - t0 = 3 /\ h = 2
    /\ Len(result[1]) = 2 /\ Len(result[2]) = 2

\* C2: for tf >= t0 and h > 0 the returned grid starts at t0, increases
\* strictly, and has time_grid[k] = t0 + k*h at every index k.
C2_UniformSpacing ==
    (Returned /\ ValidSpan) =>
        \A k \in 1..Len(result[1]) : result[1][k] = Num(t0 + (k - 1) * h)

\* C3: row 0 of the trajectory is the initial state, component for
\* component, from its assignment on; no later statement assigns row 0.
C3_InitialRow ==
    /\ Len(solution) >= 1 =>
           /\ Len(solution[1]) = Len(x0)
           /\ \A j \in 1..Len(x0) : solution[1][j] = <<x0[j], 0, 1>>
    /\ \A p \in 1..Len(writes) : writes[p].row = 0 <=> p = 1
    /\ Returned =>
           /\ Len(result[2][1]) = Len(x0)
           /\ \A j \in 1..Len(x0) : result[2][1][j] = <<x0[j], 0, 1>>

C3_Witness ==
    /\ Returned
    /\ x0 = <<1, 0>>
    /\ Len(writes) >= 3
    /\ result[2][1] = <<<<1, 0, 1>>, <<0, 0, 1>>>>
    /\ result[2][2] # result[2][1]

\* C4: with f constant (f = c for every state and time), tf >= t0 and
\* h > 0, every returned pair has trajectory[k] = x0 + c*(time_grid[k] - t0).
C4_Exactness ==
    (Returned /\ ValidSpan /\ f.a = 0 /\ f.b = 0) =>
        \A k \in 1..Len(result[1]) : \A j \in 1..Len(x0) :
            result[2][k][j] =
                QAdd(Num(x0[j]),
                     QMul(Num(f.c), QSub(result[1][k], Num(t0))))

\* C5: a grid of exactly one point means no evaluation of f, no call of the
\* solver, no exception, and a returned single-point trajectory equal to
\* the initial state.
C5_SinglePoint ==
    Len(time_points) = 1 =>
        /\ f_evals = 0
        /\ solver_calls = 0
        /\ error = ""
        /\ Returned =>
               /\ result[1] = <<<<t0, 0, 1>>>>
               /\ Len(result[2]) = 1
               /\ \A j \in 1..Len(x0) : result[2][1][j] = <<x0[j], 0, 1>>

C5_Witness ==
    /\ Returned
    /\ method = "dirk"
    /\ tf = t0 /\ h > 0
    /\ x0 = <<1>>
    /\ result = <<<<<<t0, 0, 1>>>>, <<<<<<1, 0, 1>>>>>>>>

\* C6: a call with tf < t0, h <= 0 or an empty initial state ends in an
\* error before f is called and returns nothing.
C6_Rejected ==
    (tf < t0 \/ h <= 0 \/ Len(x0) = 0) =>
        /\ f_evals = 0
        /\ result = <<>>
        /\ pc \in {"call", "error"}

\* the step indices a returned result reports as not converged: the third
\* component of the result, if it has one
Reported(r) == IF Len(r) >= 3 THEN r[3] ELSE {}

\* C7: when the solver of step i of adams_moulton_2 or custom_dirk_method
\* does not converge, the integration still returns and its result reports
\* step i.
C7_NonConvergenceReported ==
    Returned =>
        \A s \in solves : s.status # "converged" => s.step \in Reported(result)

\* C8: in adams_moulton_2 every solver call of step i >= 2 starts from the
\* Adams-Bashforth predictor and solves
\* x_next - (x_{i-1} + h*(0.5*f(x_next, t_i) + 0.5*f(x_{i-1}, t_{i-1}))) = 0.
C8_PredictorGuess ==
    method = "am2" =>
        \A s \in solves :
            /\ s.step >= 2
            /\ s.guess =
                   VAdd(Row(s.step - 1),
                        VScale(Num(h),
                               VSub(VScale(Rat(3, 2),
                                           F(Row(s.step - 1), Time(s.step - 1))),
                                    VScale(Rat(1, 2),
                                           F(Row(s.step - 2), Time(s.step - 2))))))
            /\ s.residual =
                   VSub(s.guess,
                        VAdd(Row(s.step - 1),
                             VScale(QMul(Num(h), Rat(1, 2)),
                                    VAdd(F(s.guess, Time(s.step)),
                                         F(Row(s.step - 1), Time(s.step - 1))))))

\* the Runge-Kutta point that follows the returned row k-1 (0-based)
RK4Point(k) ==
    LET x == result[2][k]
        t == result[1][k]
        hh == Num(h)
        h2 == QDiv(hh, Num(2))
        s1 == F(x, t)
        s2 == F(VAdd(x, VScale(h2, s1)), QAdd(t, h2))
        s3 == F(VAdd(x, VScale(h2, s2)), QAdd(t, h2))
        s4 == F(VAdd(x, VScale(hh, s3)), QAdd(t, hh))
    IN  VAdd(x, VScale(QDiv(hh, Num(6)),
                       VAdd(VAdd(s1, s4), VScale(Num(2), VAdd(s2, s3)))))

\* the four-step Adams-Bashforth point that follows the returned rows
\* k-4 .. k-1 (0-based)
AB4Point(k) ==
    LET d(j) == F(result[2][k + 1 - j], result[1][k + 1 - j])
    IN  VAdd(result[2][k],
             VScale(QDiv(Num(h), Num(24)),
                    VAdd(VSub(VScale(Num(55), d(1)), VScale(Num(59), d(2))),
                         VSub(VScale(Num(37), d(3)), VScale(Num(9), d(4))))))

\* C9: adams_bashforth_4 on a grid of n points produces exactly the points
\* 1..min(3, n-1) by one Runge-Kutta step each and every point 4..n-1 by
\* the four-step formula on the stored rows and grid times; each point is
\* produced by exactly one of the two.
C9_BootstrapAndRecurrence ==
    (Returned /\ method = "ab4") =>
        LET n == Len(result[1])
        IN  /\ Len(writes) = n
            /\ \A k \in 1..(n - 1) :
                   /\ writes[k + 1].row = k
                   /\ writes[k + 1].by = IF k <= 3 THEN "rk4" ELSE "ab4"
                   /\ result[2][k + 1] =
                          IF k <= 3 THEN RK4Point(k) ELSE AB4Point(k)

C9_Witness ==
    /\ Returned /\ method = "ab4"
    /\ f.a = -1 /\ f.b = 1 /\ x0 = <<1>>
    /\ Len(result[1]) = 5
    /\ writes[4].by = "rk4" /\ writes[5].by = "ab4"
    /\ result[2][5] # result[2][4]

\* C10: rows are assigned in strictly increasing index order, each once
\* (all of them by the return), and the computation of row i reads only
\* rows below i that were assigned before.
C10_SequentialSteps ==
    /\ \A p, q \in 1..Len(writes) : p < q => writes[p].row < writes[q].row
    /\ \A r \in reads : r[2] < r[1] /\ r[3]
    /\ Returned => Written = 0..(Len(result[2]) - 1)

C10_Witness ==
    /\ Returned /\ method = "am2"
    /\ Len(writes) = 4
    /\ reads = {<<2, 0, TRUE>>, <<2, 1, TRUE>>, <<3, 1, TRUE>>, <<3, 2, TRUE>>}

====
